---- MODULE Spec2Model ----
(***************************************************************************)
(* Model of .github/workflows/sync.py of kjarosh/ruffle-meta.               *)
(*                                                                         *)
(* Three specifications share the module:                                  *)
(*   Spec           sync_metainfo_releases: load, list, per-tag view/build/ *)
(*                  merge, indent and write; followed by further runs on   *)
(*                  the document the previous run wrote.                   *)
(*   SpecSanitize   SanitizeTreeprocessor.run on a bounded element tree.   *)
(*   SpecArtifacts  generate_metainfo_artifacts on a bounded asset list.   *)
(*                                                                         *)
(* Strings the code inspects character by character (tags, filenames) are  *)
(* sequences of one-character or one-token strings.                        *)
(***************************************************************************)
EXTENDS Integers, Sequences, FiniteSets, TLC

VARIABLES
    \* ---- sync_metainfo_releases ----
    pc,                     \* "start" | "loop" | "done" | "aborted"
    run,                    \* number of the current invocation of the script
    disk,                   \* the release records of the document on disk
    xml_metainfo_releases,  \* the children of the in-memory document root
    gh_release_list,        \* what `gh release list` answers (newest first)
    gh_release_view,        \* tag -> <<>> (not viewed yet) or <<json_release>>
    json_releases,          \* the parsed listing of this run
    pos,                    \* 1-based position in reversed(json_releases)
    replaced,               \* the local `replaced` of the last merge step
    idx,                    \* 1-based index the last merge step replaced, or 0
    xml_release,            \* <<>> or <<the record the last merge step built>>
    before,                 \* history: the collection before the last merge step
    loaded,                 \* history: the collection as parsed by this run
    previous,               \* history: the collection the previous run wrote
    writes,                 \* history: writes of the document in this run
    \* ---- SanitizeTreeprocessor ----
    elem,                   \* node id -> [tag, text, tail, kids]
    stack,                  \* call stack of sanitize(element, parent, idx)
    status,                 \* "idle" | "running" | "done" | "TypeError" | "IndexError"
    elided,                 \* history: the last elision and the tree before it
    \* ---- generate_metainfo_artifacts ----
    apc,                    \* "idle" | "call" | "assets" | "returned"
    tag_name,               \* the tag_name argument
    assets,                 \* json_release['assets']
    apos,                   \* 1-based position of the asset loop
    xml_artifacts           \* the children of the <artifacts> element

syncVars == <<pc, run, disk, xml_metainfo_releases, gh_release_list,
              gh_release_view, json_releases, pos, replaced, idx,
              xml_release, before, loaded, previous, writes>>
sanitizeVars == <<elem, stack, status, elided>>
artifactVars == <<apc, tag_name, assets, apos, xml_artifacts>>
vars == <<syncVars, sanitizeVars, artifactVars>>

(***************************************************************************)
(* Bounds                                                                  *)
(***************************************************************************)
MaxListing == 3     \* longest release listing
MaxLoaded == 2      \* longest document loaded by the first run
MaxRuns == 2        \* invocations of the script in a behaviour
MaxNodes == 4       \* most elements below the root of a rendered tree
MaxAssets == 2      \* longest asset list of a release

(***************************************************************************)
(* Generic helpers                                                         *)
(***************************************************************************)
Range(s) == {s[k] : k \in 1..Len(s)}

SeqsUpTo(S, n) == UNION {[1..k -> S] : k \in 0..n}

Injective(s) == \A a, b \in 1..Len(s) : s[a] = s[b] => a = b

\* Mutant of reversed: the listing is processed in the order it arrives.
notReversed(s) == s

\* Python's reversed(list)
reversed(s) == [k \in 1..Len(s) |-> s[Len(s) + 1 - k]]

(***************************************************************************)
(* Release records                                                         *)
(***************************************************************************)
\* Tag names upstream can carry.
Tags == { <<"v", "1">>, <<"1">>, <<"v", "v", "1">>, <<"v", "2">> }

\* The tag of a record that no run of the script built.
HandWritten == <<"h">>

\* str.lstrip(chars) for a one-character chars argument
RECURSIVE lstrip(_, _)
lstrip(s, c) == IF s # <<>> /\ Head(s) = c THEN lstrip(Tail(s), c) ELSE s

\* The answers `gh release view` can give for a tag.
ViewAnswers == [isPrerelease : BOOLEAN]

\* A release element.  version and type are its attributes; tag stands for
\* everything else the code derives from tag_name and the viewed release
\* (url, date, description, artifacts); layout is the whitespace of the
\* element: "raw" as built or hand-written, "indented" after xml.indent.
generate_metainfo_release(tag, json_release) ==
    [version |-> lstrip(tag, "v"),
     tag     |-> tag,
     type    |-> IF json_release.isPrerelease THEN "snapshot" ELSE "stable",
     layout  |-> "raw"]

\* Records a document can hold before the first run.
LoadableRecords ==
    [version : { <<"1">>, <<"3">> }, tag : {HandWritten},
     type : {"stable"}, layout : {"raw", "indented"}]

\* Lines 180-185: index of the first child whose version attribute equals
\* the new record's, 0 when the scan ends without a match.
FirstMatch(root, version) ==
    IF \E k \in 1..Len(root) : root[k].version = version
    THEN CHOOSE k \in 1..Len(root) :
            /\ root[k].version = version
            /\ \A j \in 1..(k - 1) : root[j].version # version
    ELSE 0

\* Mutants of Merge: the scan never matches; the `if not replaced` test is
\* lost; a new record goes to the back; a new record overwrites the front.
MergeAlwaysInsert(root, release) == <<release>> \o root

MergeReplaceAndInsert(root, release) ==
    LET m == FirstMatch(root, release.version) IN
    <<release>> \o (IF m # 0 THEN [root EXCEPT ![m] = release] ELSE root)

MergeAppend(root, release) ==
    LET m == FirstMatch(root, release.version) IN
    IF m # 0 THEN [root EXCEPT ![m] = release]
             ELSE root \o <<release>>

MergeOverwriteFront(root, release) ==
    LET m == FirstMatch(root, release.version) IN
    IF m # 0 THEN [root EXCEPT ![m] = release]
    ELSE IF root = <<>> THEN <<release>>
    ELSE [root EXCEPT ![1] = release]

\* Lines 180-188: replace the first match in place, else insert at index 0.
Merge(root, release) ==
    LET m == FirstMatch(root, release.version) IN
    IF m # 0 THEN [root EXCEPT ![m] = release]
             ELSE <<release>> \o root

\* xml.indent(tree, space="    "): every element gets the 4-space layout.
indent(root) == [k \in 1..Len(root) |-> [root[k] EXCEPT !.layout = "indented"]]

(***************************************************************************)
(* sync_metainfo_releases                                                  *)
(***************************************************************************)
SanitizeIdle ==
    /\ elem = <<>>
    /\ stack = <<>>
    /\ status = "idle"
    /\ elided = <<>>

ArtifactsIdle ==
    /\ apc = "idle"
    /\ tag_name = <<>>
    /\ assets = <<>>
    /\ apos = 0
    /\ xml_artifacts = <<>>

Init ==
    /\ pc = "start"
    /\ run = 1
    /\ disk \in SeqsUpTo(LoadableRecords, MaxLoaded)
    /\ xml_metainfo_releases = <<>>
    /\ gh_release_list \in {s \in SeqsUpTo(Tags, MaxListing) : Injective(s)}
    /\ gh_release_view = [t \in Tags |-> <<>>]
    /\ json_releases = <<>>
    /\ pos = 0
    /\ replaced = FALSE
    /\ idx = 0
    /\ xml_release = <<>>
    /\ before = <<>>
    /\ loaded = disk
    /\ previous = <<>>
    /\ writes = 0
    /\ SanitizeIdle
    /\ ArtifactsIdle

\* Lines 164-176: parse the document, run `gh release list`, parse its
\* output.  A failed call leaves stdout without a JSON document and
\* json.loads raises.
FetchList ==
    /\ pc = "start"
    /\ xml_metainfo_releases' = disk
    /\ loaded' = disk
    /\ \E ok \in BOOLEAN :
         IF ok
         THEN /\ json_releases' = gh_release_list
              /\ pos' = 1
              /\ pc' = "loop"
         ELSE /\ json_releases' = json_releases
              /\ pos' = pos
              /\ pc' = "aborted"
    /\ UNCHANGED <<run, disk, gh_release_list, gh_release_view, replaced, idx,
                   xml_release, before, previous, writes>>
    /\ UNCHANGED <<sanitizeVars, artifactVars>>

\* Lines 177-188, one iteration: view the release, build the record, merge.
\* The details of a release are the same every time it is viewed.  The failing
\* branch is any exception of generate_metainfo_release: json.loads on the
\* output of a failed call, or one raised while the record is built.
MergeStep ==
    /\ pc = "loop"
    /\ pos <= Len(json_releases)
    /\ LET tag == reversed(json_releases)[pos] IN
       \E ok \in BOOLEAN :
         IF ok
         THEN \E json_release \in
                    (IF gh_release_view[tag] = <<>> THEN ViewAnswers
                     ELSE {gh_release_view[tag][1]}) :
                LET built == generate_metainfo_release(tag, json_release)
                    m == FirstMatch(xml_metainfo_releases, built.version)
                IN
                /\ gh_release_view' =
                       [gh_release_view EXCEPT ![tag] = <<json_release>>]
                /\ xml_release' = <<built>>
                /\ before' = xml_metainfo_releases
                /\ xml_metainfo_releases' = Merge(xml_metainfo_releases, built)
                /\ replaced' = (m # 0)
                /\ idx' = m
                /\ pos' = pos + 1
                /\ pc' = "loop"
         ELSE /\ pc' = "aborted"
              /\ UNCHANGED <<gh_release_view, xml_metainfo_releases, replaced,
                             idx, xml_release, before, pos>>
    /\ UNCHANGED <<run, disk, gh_release_list, json_releases, loaded, previous,
                   writes>>
    /\ UNCHANGED <<sanitizeVars, artifactVars>>

\* Mutant of Write: the document is written inside the loop as well.
WriteInLoop ==
    /\ pc = "loop"
    /\ writes < 2
    /\ xml_metainfo_releases' = indent(xml_metainfo_releases)
    /\ disk' = indent(xml_metainfo_releases)
    /\ writes' = writes + 1
    /\ pc' = IF pos > Len(json_releases) THEN "done" ELSE "loop"
    /\ UNCHANGED <<run, gh_release_list, gh_release_view, json_releases, pos,
                   replaced, idx, xml_release, before, loaded, previous>>
    /\ UNCHANGED <<sanitizeVars, artifactVars>>

\* Lines 190-193: indent, write the whole document, append the newline.
Write ==
    /\ pc = "loop"
    /\ pos > Len(json_releases)
    /\ xml_metainfo_releases' = indent(xml_metainfo_releases)
    /\ disk' = indent(xml_metainfo_releases)
    /\ writes' = writes + 1
    /\ pc' = "done"
    /\ UNCHANGED <<run, gh_release_list, gh_release_view, json_releases, pos,
                   replaced, idx, xml_release, before, loaded, previous>>
    /\ UNCHANGED <<sanitizeVars, artifactVars>>

\* Lines 197-209: the script is invoked again, upstream unchanged.
Rerun ==
    /\ pc = "done"
    /\ run < MaxRuns
    /\ run' = run + 1
    /\ previous' = disk
    /\ pc' = "start"
    /\ xml_metainfo_releases' = <<>>
    /\ json_releases' = <<>>
    /\ pos' = 0
    /\ replaced' = FALSE
    /\ idx' = 0
    /\ xml_release' = <<>>
    /\ before' = <<>>
    /\ writes' = 0
    /\ loaded' = disk
    /\ UNCHANGED <<disk, gh_release_list, gh_release_view>>
    /\ UNCHANGED <<sanitizeVars, artifactVars>>

Next == FetchList \/ MergeStep \/ Write \/ Rerun

Spec == Init /\ [][Next]_vars

(***************************************************************************)
(* SanitizeTreeprocessor                                                   *)
(***************************************************************************)
\* Element.text and Element.tail: None, or a string (a sequence of tokens).
None == <<>>
Some(s) == <<s>>

\* Line 26 and lines 27-29.
allowed_tags == {"p", "li", "ul", "ol", "em", "code"}
tag_mapping == [t \in {"strong"} |-> "em"]

\* Tags the renderer gives the elements of the bounded trees: an allowed
\* one, a mapped one and a disallowed one.
RenderedTags == {"p", "strong", "h1"}

\* Parent arrays of the ordered trees on nodes 0..n, numbered in document
\* order (node 0 is the root the renderer hands to run).
RECURSIVE AncestorsOrSelf(_, _)
AncestorsOrSelf(par, k) ==
    IF k = 0 THEN {0} ELSE {k} \cup AncestorsOrSelf(par, par[k])

DocumentOrder(par, n) ==
    \A k \in 1..n :
        /\ par[k] < k
        /\ k > 1 => par[k] \in AncestorsOrSelf(par, k - 1)

RECURSIVE Ascending(_)
Ascending(S) ==
    IF S = {} THEN <<>>
    ELSE LET m == CHOOSE x \in S : \A y \in S : x <= y
         IN <<m>> \o Ascending(S \ {m})

\* The element tree of a parent array: node k has text <<"text", k>> and
\* tail <<"tail", k>>, except the one field absent names, which is None.
Rendered(n, par, tags, absent) ==
    [k \in 0..n |->
        [tag  |-> IF k = 0 THEN "div" ELSE tags[k],
         text |-> IF absent = <<"text", k>> THEN None
                  ELSE Some(<< <<"text", k>> >>),
         tail |-> IF absent = <<"tail", k>> THEN None
                  ELSE Some(<< <<"tail", k>> >>),
         kids |-> Ascending({j \in 1..n : par[j] = k})]]

\* Lines 48-53.  Raises TypeError when a text or tail in the subtree is None.
RECURSIVE to_text(_, _), to_text_children(_, _), raises_in_to_text(_, _)
to_text(h, e) == h[e].text[1] \o to_text_children(h, h[e].kids) \o h[e].tail[1]

to_text_children(h, kids) ==
    IF kids = <<>> THEN <<>>
    ELSE to_text(h, Head(kids)) \o to_text_children(h, Tail(kids))

raises_in_to_text(h, e) ==
    \/ h[e].text = None
    \/ h[e].tail = None
    \/ \E k \in 1..Len(h[e].kids) : raises_in_to_text(h, h[e].kids[k])

\* Element.remove(subelement): drops the first occurrence.
RECURSIVE remove(_, _)
remove(kids, e) ==
    IF kids = <<>> THEN <<>>
    ELSE IF Head(kids) = e THEN Tail(kids)
    ELSE <<Head(kids)>> \o remove(Tail(kids), e)

\* Lines 38-39 applied to element e.
Remapped(h, e) ==
    IF h[e].tag \in DOMAIN tag_mapping
    THEN [h EXCEPT ![e].tag = tag_mapping[h[e].tag]]
    ELSE h

NoParent == -1

Top == stack[Len(stack)]

\* The frame's for loop is over: the sequence-protocol iterator of an Element
\* asks for element[it] and stops at the first IndexError.
LoopOver == Top.it >= Len(elem[Top.element].kids)

\* Line 41 for the (remapped) element of the top frame.
MustElide ==
    /\ Top.parent # NoParent
    /\ Remapped(elem, Top.element)[Top.element].tag \notin allowed_tags

\* Lines 42-45: what evaluating the augmented assignment raises, if anything.
\* parent[idx - 1] is looked up first, then to_text runs, then + is applied.
ElideRaises ==
    LET f == Top
        p == elem[f.parent]
    IN
    IF f.idx = 0
    THEN IF raises_in_to_text(elem, f.element) \/ p.text = None
         THEN "TypeError" ELSE "no"
    ELSE IF f.idx > Len(p.kids) THEN "IndexError"
    ELSE IF raises_in_to_text(elem, f.element) \/ elem[p.kids[f.idx]].tail = None
         THEN "TypeError" ELSE "no"

Return ==
    /\ stack' = SubSeq(stack, 1, Len(stack) - 1)
    /\ status' = IF Len(stack) = 1 THEN "done" ELSE "running"

InitSanitize ==
    /\ \E n \in 0..MaxNodes :
         \E par \in {q \in [1..n -> 0..(n - 1)] : DocumentOrder(q, n)} :
           \E tags \in [1..n -> RenderedTags] :
             \E absent \in {<<>>} \cup ({"text", "tail"} \X (0..n)) :
                elem = Rendered(n, par, tags, absent)
    /\ stack = <<>>
    /\ status = "ready"
    /\ elided = <<>>
    /\ pc = "idle" /\ run = 0 /\ disk = <<>> /\ xml_metainfo_releases = <<>>
    /\ gh_release_list = <<>> /\ gh_release_view = <<>> /\ json_releases = <<>>
    /\ pos = 0 /\ replaced = FALSE /\ idx = 0 /\ xml_release = <<>>
    /\ before = <<>> /\ loaded = <<>> /\ previous = <<>> /\ writes = 0
    /\ ArtifactsIdle

\* Lines 31-32: run(root) calls sanitize(root, None, 0).
Run ==
    /\ status = "ready"
    /\ stack' = <<[element |-> 0, parent |-> NoParent, idx |-> 0, it |-> 0]>>
    /\ status' = "running"
    /\ UNCHANGED <<elem, elided>>
    /\ UNCHANGED <<syncVars, artifactVars>>

\* Lines 35-36, one iteration: enumerate binds the frame's own idx to the
\* position of the child and sanitize is called on the child.
Descend ==
    /\ status = "running"
    /\ ~LoopOver
    /\ LET f == Top
           child == elem[f.element].kids[f.it + 1]
       IN stack' = [stack EXCEPT ![Len(stack)] =
                        [f EXCEPT !.idx = f.it, !.it = f.it + 1]]
                   \o <<[element |-> child, parent |-> f.element,
                         idx |-> f.it, it |-> 0]>>
    /\ UNCHANGED <<elem, status, elided>>
    /\ UNCHANGED <<syncVars, artifactVars>>

\* Lines 38-41 when the element stays: remap its tag and return.
Keep ==
    /\ status = "running"
    /\ LoopOver
    /\ ~MustElide
    /\ elem' = Remapped(elem, Top.element)
    /\ Return
    /\ UNCHANGED elided
    /\ UNCHANGED <<syncVars, artifactVars>>

\* Lines 38-46 when the element goes: its text is added to parent.text or to
\* parent[idx - 1].tail, with the idx the frame holds after its loop, and the
\* element is removed from its parent.
Elide ==
    /\ status = "running"
    /\ LoopOver
    /\ MustElide
    /\ ElideRaises = "no"
    /\ LET f == Top
           h == Remapped(elem, f.element)
           flat == to_text(h, f.element)
           target == h[f.parent].kids[f.idx]
           h2 == IF f.idx = 0
                 THEN [h EXCEPT ![f.parent].text = Some(@[1] \o flat)]
                 ELSE [h EXCEPT ![target].tail = Some(@[1] \o flat)]
       IN
       /\ elem' = [h2 EXCEPT ![f.parent].kids = remove(@, f.element)]
       /\ elided' = <<[element |-> f.element, parent |-> f.parent,
                       idx |-> f.idx, flat |-> flat, tree |-> elem]>>
    /\ Return
    /\ UNCHANGED <<syncVars, artifactVars>>

\* Lines 42-45 raise: the exception leaves run and the tree stays as it is.
Raise ==
    /\ status = "running"
    /\ LoopOver
    /\ MustElide
    /\ ElideRaises # "no"
    /\ elem' = Remapped(elem, Top.element)
    /\ status' = ElideRaises
    /\ UNCHANGED <<stack, elided>>
    /\ UNCHANGED <<syncVars, artifactVars>>

NextSanitize == Run \/ Descend \/ Keep \/ Elide \/ Raise

SpecSanitize == InitSanitize /\ [][NextSanitize]_vars

(***************************************************************************)
(* generate_metainfo_artifacts                                             *)
(***************************************************************************)
REPOSITORY == "kjarosh/ruffle"

\* str.endswith
endswith(s, suffix) ==
    /\ Len(s) >= Len(suffix)
    /\ SubSeq(s, Len(s) - Len(suffix) + 1, Len(s)) = suffix

\* The substring test `suffix in s`, for the mutant below.
contains(s, suffix) ==
    \E a \in 1..(Len(s) + 1) :
        /\ a + Len(suffix) - 1 <= Len(s)
        /\ SubSeq(s, a, a + Len(suffix) - 1) = suffix

\* str(int): the decimal digits.
Digits == <<"0", "1", "2", "3", "4", "5", "6", "7", "8", "9">>
RECURSIVE str(_)
str(n) == IF n < 10 THEN <<Digits[n + 1]>>
          ELSE str(n \div 10) \o <<Digits[(n % 10) + 1]>>

\* The filename suffixes of lines 87-96, as token sequences.
LinuxX64 == <<"-linux", "-x86_64", ".tar", ".gz">>
WindowsX32 == <<"-windows", "-x86_32", ".zip">>
WindowsX64 == <<"-windows", "-x86_64", ".zip">>
MacosUniversal == <<"-macos", "-universal", ".tar", ".gz">>

\* A URL is its path, a sequence of segments separated by "/", and its query.
\* urlsplit(url).path drops the query; os.path.basename keeps the last segment.
basename_of_path(url) ==
    IF url.path = <<>> THEN <<>> ELSE url.path[Len(url.path)]

Download == <<"download">>
Readme == <<"ruffle", "-readme", ".txt">>
AssetUrls ==
    << [path |-> <<Download, <<"ruffle">> \o LinuxX64>>, query |-> <<>>],
       [path |-> <<Download, <<"ruffle">> \o WindowsX32>>, query |-> <<>>],
       [path |-> <<Download, <<"ruffle">> \o WindowsX64>>, query |-> <<>>],
       [path |-> <<Download, <<"ruffle">> \o MacosUniversal>>, query |-> <<>>],
       [path |-> <<Download, Readme>>, query |-> <<>>],
       [path |-> <<Download, <<"ruffle">> \o LinuxX64 \o <<".sha256">> >>,
        query |-> <<>>],
       [path |-> << <<"ruffle">> \o LinuxX64, Readme>>, query |-> <<>>],
       [path |-> <<Download, Readme>>, query |-> <<"f">> \o WindowsX64],
       [path |-> <<Download, MacosUniversal>>, query |-> <<>>],
       [path |-> <<Download, <<"ruffle", "-windows", "-x86_64", ".tar", ".gz">> >>,
        query |-> <<>>] >>

AssetSizes == <<1000, 7, 0>>

\* The assets the bounded lists are drawn from: every URL, with the sizes
\* dealt out in turn.
Assets ==
    {[url |-> AssetUrls[k], size |-> AssetSizes[((k - 1) % Len(AssetSizes)) + 1]] :
        k \in 1..Len(AssetUrls)}

NoPlatform == "continue"

\* Mutant of platform_of: a substring test instead of endswith.
platform_of_substring(filename) ==
    IF contains(filename, LinuxX64) THEN "x86_64-linux-gnu"
    ELSE IF contains(filename, WindowsX32) THEN "i386-windows-msvc"
    ELSE IF contains(filename, WindowsX64) THEN "x86_64-windows-msvc"
    ELSE IF contains(filename, MacosUniversal) THEN "any-macos-any"
    ELSE NoPlatform

\* Lines 87-100: the if/elif chain; NoPlatform is the `continue` branch.
platform_of(filename) ==
    IF endswith(filename, LinuxX64) THEN "x86_64-linux-gnu"
    ELSE IF endswith(filename, WindowsX32) THEN "i386-windows-msvc"
    ELSE IF endswith(filename, WindowsX64) THEN "x86_64-windows-msvc"
    ELSE IF endswith(filename, MacosUniversal) THEN "any-macos-any"
    ELSE NoPlatform

\* Lines 70-80: the source artifact.
source_artifact(tag) ==
    [type     |-> "source",
     location |-> <<"https://github.com/", REPOSITORY, "/archive/refs/tags/">>
                  \o tag \o <<".zip">>,
     filename |-> <<"ruffle-">> \o tag \o <<".zip">>]

\* Lines 102-118: the binary artifact of an asset.
binary_artifact(asset, filename, platform) ==
    [type     |-> "binary",
     platform |-> platform,
     location |-> asset.url,
     filename |-> filename,
     size     |-> [type |-> "download", text |-> str(asset.size)]]

InitArtifacts ==
    /\ apc = "call"
    /\ tag_name \in Tags
    /\ assets \in SeqsUpTo(Assets, MaxAssets)
    /\ apos = 0
    /\ xml_artifacts = <<>>
    /\ pc = "idle" /\ run = 0 /\ disk = <<>> /\ xml_metainfo_releases = <<>>
    /\ gh_release_list = <<>> /\ gh_release_view = <<>> /\ json_releases = <<>>
    /\ pos = 0 /\ replaced = FALSE /\ idx = 0 /\ xml_release = <<>>
    /\ before = <<>> /\ loaded = <<>> /\ previous = <<>> /\ writes = 0
    /\ SanitizeIdle

\* Lines 68-81.
ArtifactsSource ==
    /\ apc = "call"
    /\ xml_artifacts' = <<source_artifact(tag_name)>>
    /\ apos' = 1
    /\ apc' = "assets"
    /\ UNCHANGED <<tag_name, assets>>
    /\ UNCHANGED <<syncVars, sanitizeVars>>

\* Lines 83-119, one iteration of the asset loop.
ArtifactsAsset ==
    /\ apc = "assets"
    /\ apos <= Len(assets)
    /\ LET asset == assets[apos]
           filename == basename_of_path(asset.url)
           platform == platform_of(filename)
       IN xml_artifacts' =
              IF platform = NoPlatform THEN xml_artifacts
              ELSE Append(xml_artifacts,
                          binary_artifact(asset, filename, platform))
    /\ apos' = apos + 1
    /\ UNCHANGED <<apc, tag_name, assets>>
    /\ UNCHANGED <<syncVars, sanitizeVars>>

\* Line 121.
ArtifactsReturn ==
    /\ apc = "assets"
    /\ apos > Len(assets)
    /\ apc' = "returned"
    /\ UNCHANGED <<tag_name, assets, apos, xml_artifacts>>
    /\ UNCHANGED <<syncVars, sanitizeVars>>

NextArtifacts == ArtifactsSource \/ ArtifactsAsset \/ ArtifactsReturn

SpecArtifacts == InitArtifacts /\ [][NextArtifacts]_vars

(***************************************************************************)
(* Properties of sync_metainfo_releases                                    *)
(***************************************************************************)
Versions(root) == {root[k].version : k \in 1..Len(root)}

UniqueVersions(root) ==
    \A a, b \in 1..Len(root) : root[a].version = root[b].version => a = b

\* The versions of the tags of the listing.
FetchedVersions == {lstrip(t, "v") : t \in Range(gh_release_list)}

\* A record without its whitespace layout.
Data(r) == [version |-> r.version, tag |-> r.tag, type |-> r.type]

\* The records of root whose version no fetched tag has, in order.
RECURSIVE Untouched(_)
Untouched(root) ==
    IF root = <<>> THEN <<>>
    ELSE IF Head(root).version \in FetchedVersions THEN Untouched(Tail(root))
    ELSE <<Data(Head(root))>> \o Untouched(Tail(root))

\* Two fetched tags with the same version have both been merged.
SameVersionTagsMerged ==
    \E a, b \in 1..Len(json_releases) :
        /\ a < b /\ b < pos
        /\ lstrip(reversed(json_releases)[a], "v")
             = lstrip(reversed(json_releases)[b], "v")

\* C1: when the loaded collection has at most one record per version, the
\* collection has at most one record per version after every merge step.
C1_OneRecordPerVersion ==
    UniqueVersions(loaded) => UniqueVersions(xml_metainfo_releases)

C1_Witness ==
    /\ pc = "loop"
    /\ UniqueVersions(loaded)
    /\ Len(loaded) = MaxLoaded
    /\ SameVersionTagsMerged
    /\ Len(xml_metainfo_releases) > Len(loaded)

\* C2: a merged record whose version the collection holds takes the index of
\* a record with that version, the length and every other index unchanged; a
\* record with a new version is at index 0 and every old record moved back
\* by one.
C2_PositionallyStable ==
    (pc = "loop" /\ xml_release # <<>>) =>
        LET rec == xml_release[1]
            new == xml_metainfo_releases
        IN
        IF rec.version \in Versions(before)
        THEN /\ Len(new) = Len(before)
             /\ \E k \in 1..Len(before) :
                    /\ before[k].version = rec.version
                    /\ new[k] = rec
                    /\ \A j \in 1..Len(before) : j # k => new[j] = before[j]
        ELSE /\ Len(new) = Len(before) + 1
             /\ new[1] = rec
             /\ \A j \in 1..Len(before) : new[j + 1] = before[j]

C2_Witness ==
    /\ pc = "loop"
    /\ replaced
    /\ idx >= 2
    /\ Len(xml_metainfo_releases) > Len(loaded)
    /\ xml_metainfo_releases[idx] = xml_release[1]
    /\ before[idx] # xml_release[1]

\* C3: a run deletes nothing: the loaded records whose version no fetched
\* tag has are all still there, with their data and in their order, and the
\* collection is never shorter than it was loaded.
C3_NoDeletion ==
    pc # "start" =>
        /\ Len(xml_metainfo_releases) >= Len(loaded)
        /\ Untouched(xml_metainfo_releases) = Untouched(loaded)

C3_Witness ==
    /\ pc = "done"
    /\ Len(Untouched(loaded)) >= 1
    /\ Len(Untouched(loaded)) < Len(loaded)
    /\ Len(xml_metainfo_releases) > Len(loaded)
    /\ xml_metainfo_releases # indent(loaded)

\* C4: a run on the document a first run wrote, with the same listing and
\* the same release details, writes the same collection again.
C4_MergeIdempotent ==
    (run >= 2 /\ pc = "done") =>
        /\ disk = previous
        /\ xml_metainfo_releases = previous

C4_Witness ==
    /\ run >= 2
    /\ pc = "done"
    /\ SameVersionTagsMerged
    /\ Len(previous) >= 3
    /\ \E k \in 1..Len(previous) : previous[k].tag = HandWritten

\* C5: a failed call aborts the run with the document on disk as it was; the
\* document is written once, after every fetched release has been merged.
C5_NoPartialWrite ==
    /\ pc # "done" => (disk = loaded /\ writes = 0)
    /\ pc = "done" => (writes = 1 /\ pos = Len(json_releases) + 1
                        /\ disk = xml_metainfo_releases)

C5_Witness ==
    /\ pc = "aborted"
    /\ pos >= 2
    /\ xml_metainfo_releases # loaded
    /\ disk = loaded

\* The tag with one leading "v" removed, when it has one.
StripSingleV(t) == IF t # <<>> /\ Head(t) = "v" THEN Tail(t) ELSE t

\* C7: the version of a built record is its tag with a single leading "v"
\* removed.
C7_SingleLeadingV ==
    \A k \in 1..Len(xml_metainfo_releases) :
        xml_metainfo_releases[k].tag \in Tags =>
            xml_metainfo_releases[k].version
                = StripSingleV(xml_metainfo_releases[k].tag)

\* 1-based position of a tag in the listing.
ListingIndex(t) == CHOOSE k \in 1..Len(json_releases) : json_releases[k] = t

\* Last position in the listing of a tag with this version.
LastListed(version) ==
    CHOOSE k \in 1..Len(json_releases) :
        /\ lstrip(json_releases[k], "v") = version
        /\ \A j \in (k + 1)..Len(json_releases) :
               lstrip(json_releases[j], "v") # version

\* Number of records a run put in front of the loaded ones.
Inserted == Len(xml_metainfo_releases) - Len(loaded)

\* The records behind the inserted ones sit where the loaded ones sat.
LoadedBehindInserted ==
    /\ \A k \in 1..Inserted :
           xml_metainfo_releases[k].version \notin Versions(loaded)
    /\ \A j \in 1..Len(loaded) :
           xml_metainfo_releases[Inserted + j].version = loaded[j].version

\* C10 as stated: after a run the inserted records are in front of the
\* loaded ones, in the listing order of their tags.
C10_FrontInListingOrder ==
    pc = "done" =>
        /\ LoadedBehindInserted
        /\ \A a, b \in 1..Inserted :
               a < b => ListingIndex(xml_metainfo_releases[a].tag)
                          < ListingIndex(xml_metainfo_releases[b].tag)

\* C10 amended: after a run the inserted records are in front of the loaded
\* ones, ordered by the last position of their version in the listing.
C10_FrontInLastListedOrder ==
    pc = "done" =>
        /\ LoadedBehindInserted
        /\ \A a, b \in 1..Inserted :
               a < b => LastListed(xml_metainfo_releases[a].version)
                          < LastListed(xml_metainfo_releases[b].version)

C10_Witness ==
    /\ pc = "done"
    /\ Inserted >= 2
    /\ Len(loaded) >= 1
    /\ SameVersionTagsMerged

(***************************************************************************)
(* Properties of SanitizeTreeprocessor                                     *)
(***************************************************************************)
\* The elements below element e of tree h.
RECURSIVE Below(_, _)
Below(h, e) ==
    Range(h[e].kids) \cup UNION {Below(h, c) : c \in Range(h[e].kids)}

\* C6: after run, every element below the root has an allowed tag.
C6_OnlyAllowedTags ==
    status = "done" => \A k \in Below(elem, 0) : elem[k].tag \in allowed_tags

\* 0-based index of element e among kids.
IndexIn(kids, e) == (CHOOSE k \in 1..Len(kids) : kids[k] = e) - 1

\* C9: the flattened text of an elided element (its text, the text of its
\* descendants, its tail) is added to the parent's text when the element is
\* the parent's first child, and else to the tail of the sibling right
\* before it, found by the element's own index in the parent.
C9_ElidedTextPlacement ==
    elided # <<>> =>
        LET r == elided[1]
            was == r.tree
            kids == was[r.parent].kids
            own == IndexIn(kids, r.element)
            flat == to_text(was, r.element)
        IN
        IF own = 0
        THEN elem[r.parent].text = Some(was[r.parent].text[1] \o flat)
        ELSE elem[kids[own]].tail = Some(was[kids[own]].tail[1] \o flat)

(***************************************************************************)
(* Properties of generate_metainfo_artifacts                               *)
(***************************************************************************)
\* The suffix table of the specification.
SuffixTable ==
    { [suffix |-> LinuxX64, platform |-> "x86_64-linux-gnu"],
      [suffix |-> WindowsX32, platform |-> "i386-windows-msvc"],
      [suffix |-> WindowsX64, platform |-> "x86_64-windows-msvc"],
      [suffix |-> MacosUniversal, platform |-> "any-macos-any"] }

\* The last path segment of an asset's URL.
FilenameOf(asset) == asset.url.path[Len(asset.url.path)]

Recognized(asset) ==
    \E row \in SuffixTable : endswith(FilenameOf(asset), row.suffix)

\* The recognized assets of a list, in order.
RECURSIVE RecognizedAssets(_)
RecognizedAssets(list) ==
    IF list = <<>> THEN <<>>
    ELSE IF Recognized(Head(list))
         THEN <<Head(list)>> \o RecognizedAssets(Tail(list))
         ELSE RecognizedAssets(Tail(list))

\* The number a sequence of decimal digits denotes.
RECURSIVE DecimalValue(_)
DecimalValue(d) ==
    IF d = <<>> THEN 0
    ELSE 10 * DecimalValue(SubSeq(d, 1, Len(d) - 1))
         + ((CHOOSE k \in 1..10 : Digits[k] = d[Len(d)]) - 1)

\* C8: the result is one source artifact, first, and then one binary
\* artifact per asset whose filename ends with a recognized suffix, in asset
\* order, with the platform of the suffix table and the asset's size; other
\* assets give no artifact.
C8_ArtifactsBySuffix ==
    apc = "returned" =>
        LET want == RecognizedAssets(assets) IN
        /\ Len(xml_artifacts) = 1 + Len(want)
        /\ xml_artifacts[1].type = "source"
        /\ \A k \in 1..Len(want) :
             LET got == xml_artifacts[k + 1] IN
             /\ got.type = "binary"
             /\ got.location = want[k].url
             /\ got.filename = FilenameOf(want[k])
             /\ \E row \in SuffixTable :
                    /\ endswith(FilenameOf(want[k]), row.suffix)
                    /\ got.platform = row.platform
             /\ DecimalValue(got.size.text) = want[k].size

C8_Witness ==
    /\ apc = "returned"
    /\ Len(assets) = MaxAssets
    /\ Len(xml_artifacts) = 2
    /\ xml_artifacts[2].platform = "i386-windows-msvc"
    /\ xml_artifacts[2].size.text = <<"7">>
    /\ \E k \in 1..Len(assets) : ~Recognized(assets[k])

====
